---- MODULE Spec2Model ----
(***************************************************************************)
(* Order placement, cancellation and payment-webhook handling of the       *)
(* NiDrip backend (controllers/order-controller, payment-controller),     *)
(* over the Product, User and Order collections.                           *)
(*                                                                         *)
(* Every handler is an async function: the code between two awaits runs    *)
(* without interruption, and each awaited database call is one step.  A    *)
(* request slot (Procs) runs one handler at a time; several slots          *)
(* interleave their steps under Spec, and run one after the other under    *)
(* SerialSpec.                                                             *)
(***************************************************************************)
EXTENDS Integers, Sequences, FiniteSets, TLC

\* ---------------------------------------------------------------- bounds
NumProcs == 2
MaxStock == 2
MaxQty == 2
MaxCalls == 3
MaxLogins == 5
\* the clock runs from 0 to MaxNow minutes
MaxNow == 45

\* ------------------------------------------------------ program constants
MinReasonLen == 5
\* loginUser: failed attempts that lock the account, and minutes of the lock
MaxLoginAttempts == 3
LockMinutes == 30

Null == "null"
Absent == "absent"

Procs == 1..NumProcs
Catalog == {"A", "B"}
\* "Z" is the id of a product deleted from the catalog
DeletedProduct == "Z"
Users == {"u1", "u2"}
OrderIds == 1..(MaxCalls - 1)
Quantities == 1..MaxQty
ShippingCosts == {5}
CatalogPrice == [A |-> 10, B |-> 5]
Overrides == {Null, "  ", "office"}
\* a missing reason, one too short once trimmed, and a valid one
Reasons == { <<>>,
             <<" ", "n", "o", " ", " ">>,
             <<" ", "w", "r", "o", "n", "g", " ">> }

VARIABLES products, users, orders, proc, nCalls, initStock, snap, serial,
          auth, rate, fav, rev

\* the order flow, and the account, rating, favorite and review stores
core == <<products, users, orders, proc, nCalls, initStock, snap, serial>>

side == <<auth, rate, fav, rev>>

vars == <<core, side>>

\* ------------------------------------------------------------ pure helpers

\* String.prototype.trim on the address overrides used here
TrimAddress(s) == IF s = "  " THEN "" ELSE s

RECURSIVE TrimLeft(_)
TrimLeft(s) == IF s # <<>> /\ Head(s) = " " THEN TrimLeft(Tail(s)) ELSE s

RECURSIVE TrimRight(_)
TrimRight(s) ==
  IF s # <<>> /\ s[Len(s)] = " " THEN TrimRight(SubSeq(s, 1, Len(s) - 1)) ELSE s

\* String.prototype.trim on a reason given as a sequence of characters
Trim(s) == TrimRight(TrimLeft(s))

InvalidReasonBad(reason) ==
  reason = <<>> \/ Len(reason) < MinReasonLen
\* cancelOrder's reason validation: !reasonForCancel || trim().length < 5
\* (a missing reason and the empty string are both the empty sequence)
InvalidReason(reason) ==
  reason = <<>> \/ Len(Trim(reason)) < MinReasonLen

\* overrideAddress?.trim() || user.address
ResolveAddress(override, stored) ==
  IF override # Null /\ TrimAddress(override) # "" THEN TrimAddress(override)
  ELSE stored

ProductExists(x) == x \in DOMAIN products

\* product.stock < quantity
InsufficientStock(stock, qty) == stock < qty

StockAfterDeductBad(stock, qty) == stock - 1
\* product.stock -= quantity
StockAfterDeduct(stock, qty) == stock - qty

\* productSchema.stock: min 0, checked by product.save()
StockValid(stock) == stock >= 0

StockAfterIncBad(stock, qty) == stock - qty
\* $inc: { stock: item.quantity }
StockAfterInc(stock, qty) == stock + qty

RestoreItemBad(prods, item) ==
  IF item.product \in DOMAIN prods
  THEN [prods EXCEPT ![item.product].stock = StockAfterInc(@, 1)]
  ELSE prods
\* Product.findByIdAndUpdate(item.product, {$inc: {stock: item.quantity}})
RestoreItem(prods, item) ==
  IF item.product \in DOMAIN prods
  THEN [prods EXCEPT ![item.product].stock = StockAfterInc(@, item.quantity)]
  ELSE prods

\* The paths of the user schema's orders sub-document; the strict schema
\* drops every other path on push and on update
UserOrdersSchemaPaths == {"orderId", "status", "placedAt"}

\* user.orders.push({orderId, userId, status, paymentStatus, placedAt})
CastHistoryEntry(orderId, status, paymentStatus) ==
  [orderId |-> orderId,
   status |-> IF "status" \in UserOrdersSchemaPaths THEN status ELSE Absent,
   paymentStatus |->
     IF "paymentStatus" \in UserOrdersSchemaPaths THEN paymentStatus ELSE Absent]

MatchingEntries(hist, orderId) == {i \in 1..Len(hist) : hist[i].orderId = orderId}

FirstMatch(hist, orderId) ==
  CHOOSE i \in MatchingEntries(hist, orderId) :
    \A j \in MatchingEntries(hist, orderId) : i <= j

SyncHistoryAppend(hist, orderId, status, paymentStatus) ==
  Append(hist, CastHistoryEntry(orderId, status, paymentStatus))
\* User.updateOne({_id, "orders.orderId": orderId},
\*                {$set: {"orders.$.status": .., "orders.$.paymentStatus": ..}})
\* a Null value stands for a path the update does not set
SyncHistory(hist, orderId, status, paymentStatus) ==
  IF MatchingEntries(hist, orderId) = {} THEN hist
  ELSE [hist EXCEPT ![FirstMatch(hist, orderId)] =
         [@ EXCEPT
            !.status =
              IF status # Null /\ "status" \in UserOrdersSchemaPaths
              THEN status ELSE @,
            !.paymentStatus =
              IF paymentStatus # Null /\ "paymentStatus" \in UserOrdersSchemaPaths
              THEN paymentStatus ELSE @]]

\* order.save(): only the paths whose value differs from the loaded document
\* are written
SaveModified(stored, loaded, edited) ==
  [f \in DOMAIN stored |-> IF edited[f] # loaded[f] THEN edited[f] ELSE stored[f]]

RECURSIVE ItemsSubtotal(_)
ItemsSubtotal(items) ==
  IF items = <<>> THEN 0
  ELSE Head(items).quantity * Head(items).priceAtPurchase + ItemsSubtotal(Tail(items))

RECURSIVE OrderedQty(_, _)
\* total quantity of product x over a sequence of order items
OrderedQty(items, x) ==
  IF items = <<>> THEN 0
  ELSE (IF Head(items).product = x THEN Head(items).quantity ELSE 0)
       + OrderedQty(Tail(items), x)

\* ----------------------------------------------------------------- state

\* a line to order: of a cart, with the unit price recorded when the product
\* was added to the cart, or of a direct purchase, which has none
CartLine(x, q, price) == [productId |-> x, quantity |-> q, unitPrice |-> price]

Line(x, q) == CartLine(x, q, 0)

\* carts a user can hold when a request arrives (cart lines have quantity >= 1
\* and the catalog price of the day they were added)
CartChoices ==
  { <<>>,
    <<CartLine("A", 1, CatalogPrice["A"]),
      CartLine("B", MaxQty, CatalogPrice["B"])>> }

NoOrderDoc == [status |-> Null, paymentStatus |-> Null, reasonForCancel |-> <<>>]

Idle ==
  [pc |-> "idle", kind |-> Null, user |-> Null, orderId |-> 0,
   ship |-> 0, mode |-> Null, lines |-> <<>>, i |-> 0,
   items |-> <<>>, subtotal |-> 0, newStock |-> 0,
   address |-> Null, version |-> 0,
   loaded |-> NoOrderDoc, edited |-> NoOrderDoc, owner |-> Null,
   reason |-> <<>>, result |-> Null,
   errProduct |-> Null, errAvailable |-> 0, redelivery |-> FALSE,
   role |-> Null]

NoSnapshot ==
  [products |-> <<>>, users |-> <<>>, orders |-> <<>>,
   productId |-> Null, quantity |-> 0]

\* the persistent state as a request finds it; recorded for serial runs only
Snapshot ==
  IF serial
  THEN [NoSnapshot EXCEPT !.products = products, !.users = users,
                          !.orders = orders]
  ELSE NoSnapshot

\* the state a placeOrder finds, with the productId and quantity of its body
RequestSnapshot(productId, qty) ==
  IF serial
  THEN [Snapshot EXCEPT !.productId = productId, !.quantity = qty]
  ELSE NoSnapshot

\* the stores outside the order flow, before any request of theirs
\* lockUntil: null
NoLock == -1

\* the account of a registered user (loginAttempts 0, lockUntil null), the
\* clock in minutes, the number of logins served and the last response
AuthStart ==
  [loginAttempts |-> 0, lockUntil |-> NoLock, now |-> 0, n |-> 0,
   code |-> 0, correct |-> FALSE]
\* the two addRating handlers of the source: one keeps the ratings in the
\* product document only, the other upserts the Rating collection and pushes
\* to the product document
RatingControllers == {"embedded", "collection"}

\* the ratings of one product: Rating documents by user (0 stars: none), the
\* product's ratings array and totalRatings, the number of calls served, and
\* the stars each user gave last (0: never rated)
RateStore(impl) ==
  [impl |-> impl, coll |-> [u \in Users |-> 0], embedded |-> <<>>,
   totalRatings |-> 0, n |-> 0, last |-> [u \in Users |-> 0]]

RateStart == RateStore("embedded")
\* a request slot of the favorite controller
FavIdle == [pc |-> "idle", productId |-> Null, found |-> {}, result |-> Null]

\* the favorites of one user: the number of Favorite documents and of
\* entries of the user's favorites array per product, the request slots and
\* the number of calls served
FavStart ==
  [coll |-> [x \in Catalog |-> 0], embedded |-> [x \in Catalog |-> 0],
   slot |-> [p \in Procs |-> FavIdle], n |-> 0]
\* the reviews of one product: the Review documents (id and author), the
\* authors of the entries of the product's reviews array, totalReviews, and
\* the number of calls served
RevStart == [coll |-> {}, embedded |-> <<>>, totalReviews |-> 0, n |-> 0]

SideStart ==
  /\ auth = AuthStart
  /\ rate = RateStart
  /\ fav = FavStart
  /\ rev = RevStart

\* the catalogs a run can start from: both products with the same stock, and
\* product A with one of the given statuses
StartProducts(statuses) ==
  { [x \in Catalog |->
       [stock |-> s, price |-> CatalogPrice[x],
        status |-> IF x = "A" THEN st ELSE "ACTIVE"]] :
    s \in 1..MaxStock, st \in statuses }

Start(isSerial, statuses) ==
  /\ products \in StartProducts(statuses)
  /\ initStock = [x \in Catalog |-> products[x].stock]
  /\ \E c \in CartChoices :
       users = [u \in Users |->
                  [cart |-> IF u = "u1" THEN c ELSE <<>>,
                   address |-> IF u = "u1" THEN Null ELSE "home",
                   orders |-> <<>>,
                   version |-> 0]]
  /\ orders = <<>>
  /\ proc = [p \in Procs |-> Idle]
  /\ nCalls = 0
  /\ snap = NoSnapshot
  /\ serial = isSerial

Init == Start(FALSE, {"ACTIVE"}) /\ SideStart

\* the same initial states, for requests served one at a time
SerialInit == Start(TRUE, {"ACTIVE"}) /\ SideStart

\* product A may have been taken off sale (status INACTIVE) after it was put
\* in a cart
SaleInit == Start(TRUE, {"ACTIVE", "INACTIVE"}) /\ SideStart

\* in a serial run a slot steps only while every other slot is idle
Turn(p) == serial => \A q \in Procs \ {p} : proc[q].pc = "idle"

\* a new request is taken by the first free slot
Free(p) ==
  /\ proc[p].pc = "idle"
  /\ \A q \in Procs : q < p => proc[q].pc # "idle"

\* the handler of slot p ends with the given result
Finish(p, rec, res) ==
  proc' = [proc EXCEPT ![p] =
       [Idle EXCEPT !.pc = "done", !.kind = rec.kind, !.user = rec.user,
                    !.orderId = rec.orderId, !.mode = rec.mode,
                    !.lines = rec.lines,
                    !.address = rec.address, !.reason = rec.reason,
                    !.errProduct = rec.errProduct,
                    !.errAvailable = rec.errAvailable,
                    !.redelivery = rec.redelivery, !.role = rec.role,
                    !.result = res]]

\* ------------------------------------------------------------- placeOrder

SelectModeBad(cart, productId) ==
  IF productId # Null THEN "direct"
  ELSE IF Len(cart) > 0 THEN "cart"
  ELSE "invalid"
\* if (user.cart && user.cart.length > 0) .. else if (productId) .. else 400
SelectMode(cart, productId) ==
  IF Len(cart) > 0 THEN "cart"
  ELSE IF productId # Null THEN "direct"
  ELSE "invalid"

\* placeOrder up to the resolution of User.findById, and the choice of mode
PlaceStart(p, u, override, productId, qty, ship) ==
  /\ Turn(p)
  /\ Free(p)
  /\ nCalls < MaxCalls
  /\ nCalls' = nCalls + 1
  /\ snap' = RequestSnapshot(productId, qty)
  /\ LET base == [Idle EXCEPT !.kind = "place", !.user = u, !.ship = ship,
                              !.address =
                                ResolveAddress(override, users[u].address),
                              !.version = users[u].version]
         mode == SelectMode(users[u].cart, productId)
     IN IF mode = "cart"
        THEN /\ proc' = [proc EXCEPT ![p] =
                  [base EXCEPT !.pc = "pl_read", !.mode = mode,
                               !.lines = users[u].cart, !.i = 1]]
        ELSE IF mode = "direct"
        THEN /\ proc' = [proc EXCEPT ![p] =
                  [base EXCEPT !.pc = "pl_read", !.mode = mode,
                               !.lines = <<Line(productId, qty)>>, !.i = 1]]
        ELSE Finish(p, base, "invalid_request")
  /\ UNCHANGED <<products, users, orders, initStock, serial, side>>

PurchasePriceBad(line, product) ==
  IF line.unitPrice > 0 THEN line.unitPrice ELSE product.price
\* priceAtPurchase: product.price, and itemTotal = quantity * product.price
PurchasePrice(line, product) == product.price

\* Product.findById for the current line, the checks on it, and the start of
\* product.save()
PlaceReadProduct(p) ==
  /\ Turn(p)
  /\ proc[p].pc = "pl_read"
  /\ LET rec == proc[p]
         line == rec.lines[rec.i]
         x == line.productId
     IN IF ~ProductExists(x)
        THEN Finish(p, [rec EXCEPT !.errProduct = x], "product_not_found")
        ELSE IF rec.mode = "direct" /\ line.quantity < 1
        THEN Finish(p, rec, "invalid_quantity")
        ELSE IF InsufficientStock(products[x].stock, line.quantity)
        THEN Finish(p, [rec EXCEPT !.errProduct = x,
                                   !.errAvailable = products[x].stock],
                    "insufficient_stock")
        ELSE /\ proc' = [proc EXCEPT ![p] =
                  [rec EXCEPT
                     !.pc = "pl_save",
                     !.subtotal =
                       @ + line.quantity * PurchasePrice(line, products[x]),
                     !.items =
                       Append(@, [product |-> x,
                                  quantity |-> line.quantity,
                                  priceAtPurchase |->
                                    PurchasePrice(line, products[x])]),
                     !.newStock = StockAfterDeduct(products[x].stock,
                                                   line.quantity)]]
  /\ UNCHANGED <<products, users, orders, nCalls, initStock, serial, snap, side>>

\* product.save() writes the stock computed from the document read earlier
PlaceSaveProduct(p) ==
  /\ Turn(p)
  /\ proc[p].pc = "pl_save"
  /\ LET rec == proc[p]
         x == rec.lines[rec.i].productId
     IN IF ~StockValid(rec.newStock) \/ ~ProductExists(x)
        THEN /\ Finish(p, rec, "server_error")
             /\ UNCHANGED products
        ELSE /\ products' = [products EXCEPT ![x].stock = rec.newStock]
             /\ proc' = [proc EXCEPT ![p] =
                  IF rec.i < Len(rec.lines)
                  THEN [rec EXCEPT !.pc = "pl_read", !.i = @ + 1]
                  ELSE [rec EXCEPT !.pc = "pl_create"]]
  /\ UNCHANGED <<users, orders, nCalls, initStock, serial, snap, side>>

\* !shippingAddress
MissingAddress(address) == address = Null \/ address = ""

NewOrderBad(rec) ==
  [user |-> rec.user, items |-> rec.items,
   totalAmount |-> rec.subtotal,
   shippingCost |-> rec.ship,
   status |-> "PENDING", paymentStatus |-> "PENDING",
   reasonForCancel |-> <<>>]
\* the document Order.create stores: totalAmount = subtotal + shippingCost
NewOrder(rec) ==
  [user |-> rec.user, items |-> rec.items,
   totalAmount |-> rec.subtotal + rec.ship,
   shippingCost |-> rec.ship,
   status |-> "PENDING", paymentStatus |-> "PENDING",
   reasonForCancel |-> <<>>]

\* the address check (on the address resolved from the request and the user
\* document loaded at the start) and Order.create
PlaceCreateOrder(p) ==
  /\ Turn(p)
  /\ proc[p].pc = "pl_create"
  /\ LET rec == proc[p]
     IN IF MissingAddress(rec.address)
        THEN /\ Finish(p, rec, "missing_address")
             /\ UNCHANGED orders
        ELSE /\ orders' = Append(orders, NewOrder(rec))
             /\ proc' = [proc EXCEPT ![p] =
                  [rec EXCEPT !.pc = "pl_usersave", !.orderId = Len(orders) + 1]]
  /\ UNCHANGED <<products, users, nCalls, initStock, serial, snap, side>>

\* user.save(): the cleared cart (a whole-array $set, guarded by the document
\* version) and the pushed order-history entry
\* the names email.helper.js exports
EmailHelperExports ==
  {"sendEmail", "getEmailTemplate", "sendPasswordResetEmail",
   "sendTicketConfirmationToUser", "sendNewTicketNotificationToAdmin",
   "sendTicketStatusUpdateEmail", "sendOrderConfirmationToUser",
   "sendNewOrderNotificationToAdmin"}

\* the senders placeOrder and cancelOrder await inside their try blocks
PlacedSenders ==
  {"sendOrderConfirmationToUser", "sendNewOrderNotificationToAdmin"}

CancelledSenders ==
  {"sendOrderCancellationToUser", "sendOrderCancellationToAdmin"}

\* the response after awaiting the senders: sendEmail catches the transport's
\* error, so an exported sender returns whether or not the mail was delivered;
\* a name the helper does not export is undefined in the controller, calling
\* it throws a TypeError and the catch block answers 500
Notify(senders, delivered) ==
  IF senders \subseteq EmailHelperExports THEN "ok" ELSE "server_error"

PlaceSaveUser(p) ==
  /\ Turn(p)
  /\ proc[p].pc = "pl_usersave"
  /\ LET rec == proc[p]
         u == rec.user
         entry == CastHistoryEntry(rec.orderId, "PENDING", "PENDING")
     IN IF rec.mode = "cart" /\ users[u].version # rec.version
        THEN /\ Finish(p, rec, "server_error")
             /\ UNCHANGED users
        ELSE /\ users' = [users EXCEPT ![u] =
                  [@ EXCEPT !.cart = IF rec.mode = "cart" THEN <<>> ELSE @,
                            !.orders = Append(@, entry),
                            !.version = @ + 1]]
             /\ \E delivered \in BOOLEAN :
                  Finish(p, rec, Notify(PlacedSenders, delivered))
  /\ UNCHANGED <<products, orders, nCalls, initStock, serial, snap, side>>

\* the response has been sent; the slot takes the next request
Return(p) ==
  /\ Turn(p)
  /\ proc[p].pc = "done"
  /\ proc' = [proc EXCEPT ![p] = Idle]
  /\ snap' = NoSnapshot
  /\ UNCHANGED <<products, users, orders, nCalls, initStock, serial, side>>

\* ------------------------------------------------------------ cancelOrder

OrderExists(o) == o \in 1..Len(orders)

DocOf(order) ==
  [status |-> order.status, paymentStatus |-> order.paymentStatus,
   reasonForCancel |-> order.reasonForCancel]

WriteDocBad(order, loaded, edited) ==
  LET d == SaveModified(DocOf(order), loaded, edited)
  IN [order EXCEPT !.status = d.status, !.paymentStatus = d.paymentStatus,
                   !.reasonForCancel = d.reasonForCancel,
                   !.totalAmount = IF d.status = "CANCELLED" THEN 0 ELSE @]
\* the paths of a stored order that order.save() can write
WriteDoc(order, loaded, edited) ==
  LET d == SaveModified(DocOf(order), loaded, edited)
  IN [order EXCEPT !.status = d.status, !.paymentStatus = d.paymentStatus,
                   !.reasonForCancel = d.reasonForCancel]

IsOwnerBad(order, u) == TRUE
\* order.user.toString() === userId
IsOwner(order, u) == order.user = u

CancellableBad(status) == status # "CANCELLED"
\* order.status !== "PENDING" refuses the cancellation
Cancellable(status) == status = "PENDING"

LifeBase(p, kind, u, o, reason) ==
  [Idle EXCEPT !.kind = kind, !.user = u, !.orderId = o, !.reason = reason,
               !.redelivery = proc[p].pc = "done"]

\* cancelOrder up to the resolution of Order.findById: reason validation,
\* existence, ownership and status checks
CancelRead(p, u, o, reason) ==
  /\ Turn(p)
  /\ Free(p)
  /\ nCalls < MaxCalls
  /\ nCalls' = nCalls + 1
  /\ snap' = Snapshot
  /\ LET base == LifeBase(p, "cancel", u, o, reason)
     IN IF InvalidReason(reason) THEN Finish(p, base, "invalid_reason")
        ELSE IF ~OrderExists(o) THEN Finish(p, base, "not_found")
        ELSE IF ~IsOwner(orders[o], u) THEN Finish(p, base, "unauthorized")
        ELSE IF ~Cancellable(orders[o].status)
        THEN Finish(p, base, "invalid_state")
        ELSE /\ proc' = [proc EXCEPT ![p] =
                  [base EXCEPT !.pc = "ca_restore", !.items = orders[o].items,
                               !.i = 1, !.loaded = DocOf(orders[o])]]
  /\ UNCHANGED <<products, users, orders, initStock, serial, side>>

\* one iteration of the loop that gives the stock back
CancelRestore(p) ==
  /\ Turn(p)
  /\ proc[p].pc = "ca_restore"
  /\ LET rec == proc[p]
     IN /\ products' = RestoreItem(products, rec.items[rec.i])
        /\ proc' = [proc EXCEPT ![p] =
             IF rec.i < Len(rec.items) THEN [rec EXCEPT !.i = @ + 1]
             ELSE [rec EXCEPT !.pc = "ca_save",
                              !.edited = [status |-> "CANCELLED",
                                          paymentStatus |-> "CANCELLED",
                                          reasonForCancel |-> Trim(rec.reason)]]]
  /\ UNCHANGED <<users, orders, nCalls, initStock, serial, snap, side>>

\* order.save() of the cancelled order
CancelSaveOrder(p) ==
  /\ Turn(p)
  /\ proc[p].pc = "ca_save"
  /\ LET rec == proc[p]
     IN /\ orders' = [orders EXCEPT ![rec.orderId] =
                       WriteDoc(@, rec.loaded, rec.edited)]
        /\ proc' = [proc EXCEPT ![p] = [rec EXCEPT !.pc = "ca_sync"]]
  /\ UNCHANGED <<products, users, nCalls, initStock, serial, snap, side>>

\* User.updateOne on the owner's order history, then the emails and the
\* response
CancelSyncUser(p) ==
  /\ Turn(p)
  /\ proc[p].pc = "ca_sync"
  /\ LET rec == proc[p]
     IN /\ users' = [users EXCEPT ![rec.user].orders =
                       SyncHistory(@, rec.orderId, "CANCELLED", "CANCELLED")]
        /\ \E delivered \in BOOLEAN :
             Finish(p, rec, Notify(CancelledSenders, delivered))
  /\ UNCHANGED <<products, orders, nCalls, initStock, serial, snap, side>>

\* --------------------------------------------------- handlePaymentSuccess

\* a webhook is delivered to an idle slot, or delivered again right after its
\* first delivery has been acknowledged
Redelivered(p, kind, o) ==
  /\ proc[p].pc = "done"
  /\ proc[p].kind = kind
  /\ proc[p].orderId = o
  /\ proc[p].result = "ok"
  /\ ~proc[p].redelivery

PaySuccessRead(p, o) ==
  /\ Turn(p)
  /\ Free(p) \/ Redelivered(p, "paid", o)
  /\ nCalls < MaxCalls
  /\ nCalls' = nCalls + 1
  /\ snap' = Snapshot
  /\ LET base == LifeBase(p, "paid", Null, o, <<>>)
     IN IF ~OrderExists(o) THEN Finish(p, base, "not_found")
        ELSE /\ proc' = [proc EXCEPT ![p] =
                  [base EXCEPT !.pc = "ps_save", !.owner = orders[o].user,
                               !.loaded = DocOf(orders[o]),
                               !.edited = [DocOf(orders[o]) EXCEPT
                                             !.status = "PROCESSING",
                                             !.paymentStatus = "PAID"]]]
  /\ UNCHANGED <<products, users, orders, initStock, serial, side>>

PaySuccessSave(p) ==
  /\ Turn(p)
  /\ proc[p].pc = "ps_save"
  /\ LET rec == proc[p]
     IN /\ orders' = [orders EXCEPT ![rec.orderId] =
                       WriteDoc(@, rec.loaded, rec.edited)]
        /\ proc' = [proc EXCEPT ![p] = [rec EXCEPT !.pc = "ps_sync"]]
  /\ UNCHANGED <<products, users, nCalls, initStock, serial, snap, side>>

PaySuccessSync(p) ==
  /\ Turn(p)
  /\ proc[p].pc = "ps_sync"
  /\ LET rec == proc[p]
     IN /\ users' = [users EXCEPT ![rec.owner].orders =
                       SyncHistory(@, rec.orderId, "PROCESSING", "PAID")]
        /\ Finish(p, rec, "ok")
  /\ UNCHANGED <<products, orders, nCalls, initStock, serial, snap, side>>

\* ---------------------------------------------------- handlePaymentFailed

FailedEditBad(doc) ==
  [doc EXCEPT !.paymentStatus = "FAILED", !.status = "CANCELLED"]
\* order.paymentStatus = "FAILED"
FailedEdit(doc) == [doc EXCEPT !.paymentStatus = "FAILED"]

PayFailedRead(p, o) ==
  /\ Turn(p)
  /\ Free(p) \/ Redelivered(p, "failed", o)
  /\ nCalls < MaxCalls
  /\ nCalls' = nCalls + 1
  /\ snap' = Snapshot
  /\ LET base == LifeBase(p, "failed", Null, o, <<>>)
     IN IF ~OrderExists(o) THEN Finish(p, base, "not_found")
        ELSE /\ proc' = [proc EXCEPT ![p] =
                  [base EXCEPT !.pc = "pf_save", !.owner = orders[o].user,
                               !.items = orders[o].items,
                               !.loaded = DocOf(orders[o]),
                               !.edited = FailedEdit(DocOf(orders[o]))]]
  /\ UNCHANGED <<products, users, orders, initStock, serial, side>>

PayFailedSave(p) ==
  /\ Turn(p)
  /\ proc[p].pc = "pf_save"
  /\ LET rec == proc[p]
     IN /\ orders' = [orders EXCEPT ![rec.orderId] =
                       WriteDoc(@, rec.loaded, rec.edited)]
        /\ proc' = [proc EXCEPT ![p] = [rec EXCEPT !.pc = "pf_sync"]]
  /\ UNCHANGED <<products, users, nCalls, initStock, serial, snap, side>>

PayFailedSync(p) ==
  /\ Turn(p)
  /\ proc[p].pc = "pf_sync"
  /\ LET rec == proc[p]
     IN /\ users' = [users EXCEPT ![rec.owner].orders =
                       SyncHistory(@, rec.orderId, Null, "FAILED")]
        /\ proc' = [proc EXCEPT ![p] = [rec EXCEPT !.pc = "pf_restore", !.i = 1]]
  /\ UNCHANGED <<products, orders, nCalls, initStock, serial, snap, side>>

\* one iteration of the loop that restores stock for a failed payment
PayFailedRestore(p) ==
  /\ Turn(p)
  /\ proc[p].pc = "pf_restore"
  /\ LET rec == proc[p]
     IN /\ products' = RestoreItem(products, rec.items[rec.i])
        /\ IF rec.i < Len(rec.items)
           THEN /\ proc' = [proc EXCEPT ![p] = [rec EXCEPT !.i = @ + 1]]
              ELSE Finish(p, rec, "ok")
  /\ UNCHANGED <<users, orders, nCalls, initStock, serial, snap, side>>

\* ---------------------------------------------------------- specification

Step(p) ==
  \/ \E u \in Users, override \in Overrides, x \in Catalog \cup {DeletedProduct, Null},
        q \in Quantities, ship \in ShippingCosts :
       PlaceStart(p, u, override, x, q, ship)
  \/ PlaceReadProduct(p)
  \/ PlaceSaveProduct(p)
  \/ PlaceCreateOrder(p)
  \/ PlaceSaveUser(p)
  \/ \E u \in Users, o \in OrderIds, reason \in Reasons : CancelRead(p, u, o, reason)
  \/ CancelRestore(p)
  \/ CancelSaveOrder(p)
  \/ CancelSyncUser(p)
  \/ \E o \in OrderIds : PaySuccessRead(p, o)
  \/ PaySuccessSave(p)
  \/ PaySuccessSync(p)
  \/ \E o \in OrderIds : PayFailedRead(p, o)
  \/ PayFailedSave(p)
  \/ PayFailedSync(p)
  \/ PayFailedRestore(p)
  \/ Return(p)

Next == \E p \in Procs : Step(p)

\* requests interleave their steps
Spec == Init /\ [][Next]_vars

\* requests are served one at a time
SerialSpec == SerialInit /\ [][Next]_vars

\* requests are served one at a time on a catalog where a product may be off
\* sale
SaleSpec == SaleInit /\ [][Next]_vars

\* the product the administrator reprices and the price it is given,
\* different from the catalog's
RepricedProducts == {"A"}
NewPrices == {7}

\* updateProduct with a price in its body: findByIdAndUpdate writes the price
\* of the stored product
UpdateProduct(x, price) ==
  /\ products[x].price # price
  /\ products' = [products EXCEPT ![x].price = price]
  /\ UNCHANGED <<users, orders, proc, nCalls, initStock, snap, serial, side>>

CatalogNext ==
  \/ Next
  \/ \E x \in RepricedProducts :
       \E price \in NewPrices \cup {CatalogPrice[x]} : UpdateProduct(x, price)

\* requests are served one at a time while the administrator changes prices
\* at any moment
CatalogSpec == SerialInit /\ [][CatalogNext]_vars

\* ----------------------------------------------------------- getOrderById

\* the authenticated callers of getOrderById and the role of their token
Callers == Users \cup {"admin"}

RoleOf(caller) == IF caller = "admin" THEN "SUPERADMIN" ELSE "USER"

\* the names getOrderById declares
GetOrderByIdLocals == {"orderId", "userId", "isSuperAdmin", "order"}

\* order.user._id.toString() !== userId && !isAdmin: the right operand is
\* evaluated for a caller who is not the owner only; reading a name that is
\* not declared throws a ReferenceError and the catch block answers 500
AuthorizeView(order, caller, role) ==
  IF order.user = caller THEN "ok"
  ELSE IF "isAdmin" \notin GetOrderByIdLocals THEN "server_error"
  ELSE IF role = "SUPERADMIN" THEN "ok"
  ELSE "unauthorized"

\* getOrderById: Order.findById, the checks and the response ("ok" carries
\* the order)
GetOrderById(p, caller, o) ==
  /\ Turn(p)
  /\ Free(p)
  /\ snap' = Snapshot
  /\ LET base == [Idle EXCEPT !.kind = "view", !.user = caller,
                              !.role = RoleOf(caller), !.orderId = o]
     IN IF ~OrderExists(o) THEN Finish(p, base, "not_found")
        ELSE Finish(p, base, AuthorizeView(orders[o], caller, RoleOf(caller)))
  /\ UNCHANGED <<products, users, orders, nCalls, initStock, serial, side>>

ViewNext ==
  \/ Next
  \/ \E p \in Procs, caller \in Callers, o \in OrderIds :
       GetOrderById(p, caller, o)

\* requests are served one at a time, getOrderById among them
ViewSpec == SerialInit /\ [][ViewNext]_vars

\* -------------------------------------------------------------- loginUser

\* minutes between two readings of the clock
TickMinutes == 15

Tick ==
  /\ auth.now + TickMinutes <= MaxNow
  /\ auth' = [auth EXCEPT !.now = @ + TickMinutes]
  /\ UNCHANGED <<core, rate, fav, rev>>

IsLockedBad(lockUntil, now) == FALSE
\* user.lockUntil && user.lockUntil > Date.now()
IsLocked(lockUntil, now) == lockUntil # NoLock /\ lockUntil > now

\* user.lockUntil && user.lockUntil <= Date.now()
LockExpired(lockUntil, now) == lockUntil # NoLock /\ lockUntil <= now

\* loginUser for the registered email, with a correct or a wrong password
Login(correct) ==
  /\ auth.n < MaxLogins
  /\ LET served == [auth EXCEPT !.n = @ + 1, !.correct = correct]
         cleared == IF LockExpired(auth.lockUntil, auth.now)
                    THEN [served EXCEPT !.loginAttempts = 0,
                                        !.lockUntil = NoLock]
                    ELSE served
         attempts == cleared.loginAttempts + 1
     IN auth' =
          IF IsLocked(auth.lockUntil, auth.now)
          THEN [served EXCEPT !.code = 423]
          ELSE IF ~correct
          THEN [cleared EXCEPT
                  !.loginAttempts = attempts,
                  !.lockUntil = IF attempts >= MaxLoginAttempts
                                THEN auth.now + LockMinutes ELSE @,
                  !.code = 401]
          ELSE [cleared EXCEPT !.loginAttempts = 0, !.lockUntil = NoLock,
                               !.code = 200]
  /\ UNCHANGED <<core, rate, fav, rev>>

AuthNext == Tick \/ \E correct \in BOOLEAN : Login(correct)

\* logins of one account, one after the other, while time passes
AuthSpec == SerialInit /\ [][AuthNext]_vars

\* -------------------------------------------------------------- addRating

Stars == {2, 5}

\* the entries of a ratings array that belong to a user
RatingsOf(embedded, u) == {i \in 1..Len(embedded) : embedded[i].user = u}

\* product.ratings.find(...): set the stars of the first entry of the user,
\* or push a new entry
RateEmbedded(embedded, u, stars) ==
  IF RatingsOf(embedded, u) = {}
  THEN Append(embedded, [user |-> u, stars |-> stars])
  ELSE LET i == CHOOSE k \in RatingsOf(embedded, u) :
                  \A j \in RatingsOf(embedded, u) : k <= j
       IN [embedded EXCEPT ![i].stars = stars]

\* addRating on the product document: averageRating is recomputed from the
\* array and is not kept here
AddRatingEmbedded(u, stars) ==
  /\ rate.impl = "embedded"
  /\ rate.n < MaxCalls
  /\ LET embedded == RateEmbedded(rate.embedded, u, stars)
     IN rate' = [rate EXCEPT !.embedded = embedded,
                             !.totalRatings = Len(embedded),
                             !.n = @ + 1,
                             !.last[u] = stars]
  /\ UNCHANGED <<core, auth, fav, rev>>

\* addRating with the Rating collection: findOneAndUpdate with upsert, then
\* Rating.find for the count, then $push of the new entry on the product
AddRatingCollection(u, stars) ==
  /\ rate.impl = "collection"
  /\ rate.n < MaxCalls
  /\ LET coll == [rate.coll EXCEPT ![u] = stars]
     IN rate' = [rate EXCEPT
                   !.coll = coll,
                   !.totalRatings = Cardinality({v \in Users : coll[v] # 0}),
                   !.embedded = Append(@, [user |-> u, stars |-> stars]),
                   !.n = @ + 1,
                   !.last[u] = stars]
  /\ UNCHANGED <<core, auth, fav, rev>>

RateNext ==
  \E u \in Users, stars \in Stars :
    AddRatingEmbedded(u, stars) \/ AddRatingCollection(u, stars)

RateInit ==
  /\ Start(TRUE, {"ACTIVE"})
  /\ auth = AuthStart
  /\ rate \in {RateStore(impl) : impl \in RatingControllers}
  /\ fav = FavStart
  /\ rev = RevStart

\* addRating calls served one after the other, by either handler
RateSpec == RateInit /\ [][RateNext]_vars

\* ---------------------------------------------------- favorite controller

FavDone(p, x, res) ==
  [FavIdle EXCEPT !.pc = "done", !.productId = x, !.result = res]

\* addToFavorites up to Favorite.findOne({userId, productId})
FavAddFind(p, x) ==
  /\ fav.slot[p].pc = "idle"
  /\ fav.n < MaxCalls
  /\ fav' = [fav EXCEPT
               !.n = @ + 1,
               !.slot[p] = IF fav.coll[x] > 0 THEN FavDone(p, x, "already")
                           ELSE [FavIdle EXCEPT !.pc = "save",
                                                !.productId = x]]
  /\ UNCHANGED <<core, auth, rate, rev>>

\* favorite.save(): the unique index on (userId, productId) refuses a second
\* document
FavAddSave(p) ==
  /\ fav.slot[p].pc = "save"
  /\ LET x == fav.slot[p].productId
     IN fav' = IF fav.coll[x] > 0
               THEN [fav EXCEPT !.slot[p] = FavDone(p, x, "server_error")]
               ELSE [fav EXCEPT !.coll[x] = @ + 1, !.slot[p].pc = "find"]
  /\ UNCHANGED <<core, auth, rate, rev>>

\* removeFromFavorites up to Favorite.deleteOne({userId, productId})
FavRemoveDelete(p, x) ==
  /\ fav.slot[p].pc = "idle"
  /\ fav.n < MaxCalls
  /\ fav' = [fav EXCEPT
               !.n = @ + 1,
               !.coll[x] = IF @ > 0 THEN @ - 1 ELSE @,
               !.slot[p] = IF fav.coll[x] = 0 THEN FavDone(p, x, "not_found")
                           ELSE [FavIdle EXCEPT !.pc = "find",
                                                !.productId = x]]
  /\ UNCHANGED <<core, auth, rate, rev>>

\* syncUserFavorites: Favorite.find({userId})
FavSyncFind(p) ==
  /\ fav.slot[p].pc = "find"
  /\ fav' = [fav EXCEPT
               !.slot[p].found = {x \in Catalog : fav.coll[x] > 0},
               !.slot[p].pc = "write"]
  /\ UNCHANGED <<core, auth, rate, rev>>

\* syncUserFavorites: User.findByIdAndUpdate(userId, {favorites}), and the
\* response
FavSyncWrite(p) ==
  /\ fav.slot[p].pc = "write"
  /\ fav' = [fav EXCEPT
               !.embedded = [x \in Catalog |->
                               IF x \in fav.slot[p].found THEN 1 ELSE 0],
               !.slot[p] = FavDone(p, fav.slot[p].productId, "ok")]
  /\ UNCHANGED <<core, auth, rate, rev>>

FavReturn(p) ==
  /\ fav.slot[p].pc = "done"
  /\ fav' = [fav EXCEPT !.slot[p] = FavIdle]
  /\ UNCHANGED <<core, auth, rate, rev>>

FavNext ==
  \E p \in Procs :
    \/ \E x \in Catalog : FavAddFind(p, x)
    \/ FavAddSave(p)
    \/ \E x \in Catalog : FavRemoveDelete(p, x)
    \/ FavSyncFind(p)
    \/ FavSyncWrite(p)
    \/ FavReturn(p)

\* the favorite requests of one user, interleaved
FavSpec == SerialInit /\ [][FavNext]_vars

\* ------------------------------------------------------ review controller

ReviewIds == 1..MaxCalls

\* addReview: Review.create, then $inc totalReviews and $push on the product
AddReview(u) ==
  /\ rev.n < MaxCalls
  /\ rev' = [rev EXCEPT
               !.coll = @ \cup {[id |-> rev.n + 1, user |-> u]},
               !.embedded = Append(@, u),
               !.totalReviews = @ + 1,
               !.n = @ + 1]
  /\ UNCHANGED <<core, auth, rate, fav>>

\* $pull: {reviews: {user: author}} removes every entry of the author
PullReviews(embedded, author) ==
  SelectSeq(embedded, LAMBDA u : u # author)

\* deleteReview: not found, unauthorized, or review.deleteOne() followed by
\* $inc totalReviews -1 and $pull on the product
DeleteReview(caller, id) ==
  /\ rev.n < MaxCalls
  /\ LET found == {r \in rev.coll : r.id = id}
         refused == \A r \in found :
                      r.user # caller /\ RoleOf(caller) # "SUPERADMIN"
     IN IF found = {} \/ refused
        THEN rev' = [rev EXCEPT !.n = @ + 1]
        ELSE LET r == CHOOSE r \in found : TRUE
             IN rev' = [rev EXCEPT
                          !.coll = @ \ {r},
                          !.embedded = PullReviews(@, r.user),
                          !.totalReviews = @ - 1,
                          !.n = @ + 1]
  /\ UNCHANGED <<core, auth, rate, fav>>

RevNext ==
  \/ \E u \in Users : AddReview(u)
  \/ \E caller \in Callers, id \in ReviewIds : DeleteReview(caller, id)

\* addReview and deleteReview calls served one after the other
RevSpec == SerialInit /\ [][RevNext]_vars

\* ----------------------------------------------------------- properties

Done(p) == proc[p].pc = "done"

Placed(p) == Done(p) /\ proc[p].kind = "place"

\* the persistent state is as the request of the running slot found it
Unchanged == products = snap.products /\ users = snap.users /\ orders = snap.orders

RECURSIVE LedgerQty(_, _)
\* total quantity of product x over the orders of a ledger
LedgerQty(ledger, x) ==
  IF ledger = <<>> THEN 0
  ELSE OrderedQty(Head(ledger).items, x) + LedgerQty(Tail(ledger), x)

\* the lines of slot p's request that ask for more than the stock the request
\* found
ShortLines(p) ==
  {i \in 1..Len(proc[p].lines) :
     /\ proc[p].lines[i].productId \in Catalog
     /\ snap.products[proc[p].lines[i].productId].stock
          < proc[p].lines[i].quantity}

\* every line of slot p's request names a catalog product
AllLinesExist(p) ==
  \A i \in 1..Len(proc[p].lines) : proc[p].lines[i].productId \in Catalog

WantsOne(p, x) == proc[p].lines = <<Line(x, 1)>>

\* C1: with stock 1 and two placeOrder requests, each for quantity 1 of the
\* product and each with a shipping address, exactly one creates an order, the
\* other fails with insufficient stock, and the final stock is 0.
C1_ExactlyOnePlacementWins ==
  \A x \in Catalog : \A p, q \in Procs :
    ( /\ p # q
      /\ initStock[x] = 1
      /\ nCalls = 2
      /\ Placed(p) /\ Placed(q)
      /\ WantsOne(p, x) /\ WantsOne(q, x)
      /\ ~MissingAddress(proc[p].address) /\ ~MissingAddress(proc[q].address) )
    => /\ \/ proc[p].result = "ok" /\ proc[q].result = "insufficient_stock"
          \/ proc[q].result = "ok" /\ proc[p].result = "insufficient_stock"
       /\ Len(orders) = 1
       /\ products[x].stock = 0

\* C2: in every reachable state, under any interleaving of placeOrder,
\* cancelOrder and the payment webhooks, every product's stock is >= 0.
C2_StockNeverNegative == \A x \in Catalog : products[x].stock >= 0

\* a placement has taken a product's stock down to zero
C2_Witness ==
  \E x \in Catalog : products[x].stock = 0 /\ LedgerQty(orders, x) > 0

\* C3: a placeOrder with a line asking for more than the product's stock fails
\* with insufficient stock, naming that product and its available count, and
\* leaves every product's stock, the cart and the ledger as they were.
C3_ShortLineLeavesStateUnchanged ==
  \A p \in Procs :
    (Placed(p) /\ AllLinesExist(p) /\ ShortLines(p) # {})
    => /\ proc[p].result = "insufficient_stock"
       /\ \E i \in ShortLines(p) :
            /\ proc[p].errProduct = proc[p].lines[i].productId
            /\ proc[p].errAvailable = snap.products[proc[p].errProduct].stock
       /\ Unchanged

\* C4: when a placeOrder has returned, either its stock decrements and its
\* order exist together or none of them does.
C4_PlaceOrderAtomic ==
  \A p \in Procs :
    Placed(p)
    => \/ products = snap.products /\ orders = snap.orders
       \/ /\ Len(orders) = Len(snap.orders) + 1
          /\ SubSeq(orders, 1, Len(snap.orders)) = snap.orders
          /\ \A x \in Catalog :
               products[x].stock =
                 snap.products[x].stock - OrderedQty(orders[Len(orders)].items, x)

\* C5: a placeOrder that resolves no shipping address (no or blank override,
\* no stored address), in a request that is valid otherwise, fails with the
\* missing-address error and has changed no stock, cart or ledger.
C5_MissingAddressLeavesStateUnchanged ==
  \A p \in Procs :
    ( /\ Placed(p)
      /\ MissingAddress(proc[p].address)
      /\ proc[p].lines # <<>>
      /\ AllLinesExist(p)
      /\ ShortLines(p) = {} )
    => proc[p].result = "missing_address" /\ Unchanged

\* C6: stock given back at most once per order: with no catalog restocking
\* no product's stock exceeds its initial value.
C6_StockNeverAboveInitial ==
  \A x \in Catalog : products[x].stock <= initStock[x]

\* C7: a second delivery of the failed-payment webhook for an order leaves the
\* order, its mirror entry and the product stock as the first delivery left
\* them.
C7_PaymentFailedIdempotent ==
  \A p \in Procs :
    (Done(p) /\ proc[p].kind = "failed" /\ proc[p].redelivery)
    => Unchanged

\* C8: a second onPaymentConfirmed call on an order changes nothing: at every
\* step of the second call the order, its mirror entry and the product stock
\* are as the first call left them.
C8_PaymentConfirmedIdempotent ==
  \A p \in Procs :
    (proc[p].kind = "paid" /\ proc[p].redelivery) => Unchanged

\* the second confirmation of an order has run to its end
C8_Witness ==
  \E p \in Procs :
    /\ Done(p) /\ proc[p].kind = "paid" /\ proc[p].redelivery
    /\ proc[p].result = "ok"
    /\ orders[proc[p].orderId].status = "PROCESSING"
    /\ orders[proc[p].orderId].paymentStatus = "PAID"

\* slot p has served a cancelOrder that went through every step up to the
\* emails: it has answered 200, or 500 from the catch block after its writes
CancelCommitted(p) ==
  /\ Done(p)
  /\ proc[p].kind = "cancel"
  /\ proc[p].result \in {"ok", "server_error"}

\* C9: a cancelOrder that goes through on a PENDING order adds each item's
\* quantity to its product's stock, and a placement followed at once by its
\* cancellation leaves every stock at its value before the placement.
C9_CancelRestoresStock ==
  \A p \in Procs :
    CancelCommitted(p)
    => /\ snap.orders[proc[p].orderId].status = "PENDING"
       /\ \A x \in Catalog :
            products[x].stock =
              snap.products[x].stock
                + OrderedQty(orders[proc[p].orderId].items, x)
       /\ nCalls = 2 => \A x \in Catalog : products[x].stock = initStock[x]

\* an order of quantity two has been placed and then cancelled
C9_Witness ==
  \E p \in Procs :
    /\ CancelCommitted(p)
    /\ nCalls = 2
    /\ \E x \in Catalog : OrderedQty(orders[proc[p].orderId].items, x) = 2

\* slot p has served a cancelOrder for an existing order that was not PENDING
CancelOfNonPending(p) ==
  /\ Done(p)
  /\ proc[p].kind = "cancel"
  /\ proc[p].orderId \in 1..Len(snap.orders)
  /\ snap.orders[proc[p].orderId].status # "PENDING"

\* C10: cancelOrder on an order that is not PENDING never succeeds and leaves
\* the order, its mirror entry and every stock unchanged; called by the owner
\* with a valid reason it fails with the invalid-state error.
C10_CancelNonPendingRejected ==
  \A p \in Procs :
    CancelOfNonPending(p)
    => /\ ~CancelCommitted(p)
       /\ Unchanged
       /\ ( /\ ~InvalidReason(proc[p].reason)
            /\ snap.orders[proc[p].orderId].user = proc[p].user )
          => proc[p].result = "invalid_state"

\* the owner's cancellation of a PROCESSING order has been refused
C10_Witness ==
  \E p \in Procs :
    /\ CancelOfNonPending(p)
    /\ proc[p].result = "invalid_state"
    /\ snap.orders[proc[p].orderId].status = "PROCESSING"

\* the owner's cancellation of a CANCELLED order has been refused
C10_WitnessCancelled ==
  \E p \in Procs :
    /\ CancelOfNonPending(p)
    /\ proc[p].result = "invalid_state"
    /\ snap.orders[proc[p].orderId].status = "CANCELLED"

\* slot p has served a cancelOrder by the owner of order o, with a valid
\* reason, that found the order
OwnerCancelOf(p, o) ==
  /\ Done(p)
  /\ proc[p].kind = "cancel"
  /\ proc[p].orderId = o
  /\ OrderExists(o)
  /\ proc[p].user = orders[o].user
  /\ ~InvalidReason(proc[p].reason)
  /\ proc[p].result # "not_found"

\* C11: two cancelOrder requests by the owner for the same PENDING order,
\* interleaved in any way, leave the order CANCELLED with its quantities given
\* back to the stock exactly once: at most one of the two restores, and after
\* one placement and the two cancellations every stock is at its initial
\* value.
C11_ConcurrentCancelRestoresOnce ==
  \A o \in OrderIds : \A p, q \in Procs :
    (p # q /\ nCalls = 3 /\ OwnerCancelOf(p, o) /\ OwnerCancelOf(q, o))
    => /\ orders[o].status = "CANCELLED"
       /\ ~(CancelCommitted(p) /\ CancelCommitted(q))
       /\ \A x \in Catalog : products[x].stock = initStock[x]

\* C17: a notification failure is not propagated: a placeOrder that has
\* created its order, and a cancelOrder by the owner with a valid reason on a
\* PENDING order, answer success and leave the order or the cancellation
\* committed.
C17_NotificationFailureNotPropagated ==
  \A p \in Procs :
    /\ (Placed(p) /\ Len(orders) > Len(snap.orders))
       => /\ proc[p].result = "ok"
          /\ orders[Len(orders)].status = "PENDING"
    /\ ( /\ Done(p)
         /\ proc[p].kind = "cancel"
         /\ ~InvalidReason(proc[p].reason)
         /\ proc[p].orderId \in 1..Len(snap.orders)
         /\ snap.orders[proc[p].orderId].user = proc[p].user
         /\ snap.orders[proc[p].orderId].status = "PENDING" )
       => /\ proc[p].result = "ok"
          /\ orders[proc[p].orderId].status = "CANCELLED"

\* C12: in every reachable state every order's totalAmount is the sum of
\* quantity * priceAtPurchase over its items plus its shippingCost, whatever
\* happens afterwards to the catalog prices and to the order's status.
C12_TotalAmountConsistent ==
  \A o \in 1..Len(orders) :
    orders[o].totalAmount
      = ItemsSubtotal(orders[o].items) + orders[o].shippingCost

\* an order has left PENDING and the catalog price of one of its items is no
\* longer the price it was bought at
C12_Witness ==
  \E o \in 1..Len(orders) :
    /\ orders[o].status # "PENDING"
    /\ \E i \in 1..Len(orders[o].items) :
         products[orders[o].items[i].product].price
           # orders[o].items[i].priceAtPurchase

\* the statuses an order may move to from a status
AllowedNext(status) ==
  CASE status = "PENDING" -> {"PROCESSING", "CANCELLED"}
    [] status = "PROCESSING" -> {"SHIPPED", "DELIVERED", "CANCELLED"}
    [] OTHER -> {}

\* C13: an order's status moves only from PENDING to PROCESSING or CANCELLED
\* and from PROCESSING to SHIPPED, DELIVERED or CANCELLED: no step changes the
\* status of a DELIVERED or CANCELLED order, and the payment confirmation
\* moves an order to PROCESSING only from PENDING.
C13_StatusMachine ==
  [][\A o \in 1..Len(orders) :
       \/ orders'[o].status = orders[o].status
       \/ orders'[o].status \in AllowedNext(orders[o].status)]_vars

\* no request is between its first step and its response
Quiescent == \A p \in Procs : proc[p].pc \in {"idle", "done"}

\* C14: whenever no operation is in flight, every order of the ledger has
\* exactly one entry in its owner's order history, and that entry's status and
\* paymentStatus are the order's.
C14_MirrorConsistent ==
  Quiescent
  => \A o \in 1..Len(orders) :
       LET hist == users[orders[o].user].orders
       IN /\ Cardinality(MatchingEntries(hist, o)) = 1
          /\ \A i \in MatchingEntries(hist, o) :
               /\ hist[i].status = orders[o].status
               /\ hist[i].paymentStatus = orders[o].paymentStatus

\* the product and quantity of each element of a sequence of cart lines or of
\* order items
LinePairs(lines) ==
  [i \in 1..Len(lines) |-> <<lines[i].productId, lines[i].quantity>>]

ItemPairs(items) ==
  [i \in 1..Len(items) |-> <<items[i].product, items[i].quantity>>]

\* slot p's placeOrder has created the last order of the ledger
Created(p) ==
  /\ Placed(p)
  /\ proc[p].result = "ok"
  /\ Len(orders) = Len(snap.orders) + 1

\* C15: placeOrder chooses its mode by precedence: with a non-empty cart it
\* orders exactly the cart's lines whatever productId and quantity the request
\* carries; with an empty cart and a productId it orders that single product;
\* with neither it fails with the invalid-request error and changes nothing.
C15_ModePrecedence ==
  \A p \in Procs :
    Placed(p)
    => LET cart == snap.users[proc[p].user].cart
       IN IF cart # <<>>
          THEN /\ proc[p].mode = "cart"
               /\ proc[p].lines = cart
               /\ Created(p) => ItemPairs(orders[Len(orders)].items)
                                  = LinePairs(cart)
          ELSE IF snap.productId # Null
          THEN /\ proc[p].mode = "direct"
               /\ proc[p].lines = <<Line(snap.productId, snap.quantity)>>
               /\ Created(p) => ItemPairs(orders[Len(orders)].items)
                                  = << <<snap.productId, snap.quantity>> >>
          ELSE proc[p].result = "invalid_request" /\ Unchanged

\* a cart checkout has created its order from a request that also carried
\* the productId of a product that is not in the order
C15_Witness ==
  \E p \in Procs :
    /\ Created(p)
    /\ proc[p].mode = "cart"
    /\ snap.productId \in Catalog
    /\ snap.quantity = MaxQty
    /\ OrderedQty(orders[Len(orders)].items, snap.productId) # snap.quantity

RECURSIVE CartQty(_, _)
\* total quantity of product x over the lines of a cart
CartQty(cart, x) ==
  IF cart = <<>> THEN 0
  ELSE (IF Head(cart).productId = x THEN Head(cart).quantity ELSE 0)
       + CartQty(Tail(cart), x)

RECURSIVE CartValue(_, _)
\* the lines of a cart at the prices of a catalog
CartValue(cart, prods) ==
  IF cart = <<>> THEN 0
  ELSE Head(cart).quantity * prods[Head(cart).productId].price
       + CartValue(Tail(cart), prods)

\* C16: a successful cart checkout creates exactly one order, holding the
\* lines the cart had, with status and paymentStatus PENDING and the total of
\* the lines plus the shipping cost; every product's stock has dropped by
\* exactly its cart quantity and the user's stored cart is empty.
C16_CartCheckout ==
  \A p \in Procs :
    (Placed(p) /\ proc[p].mode = "cart" /\ proc[p].result = "ok")
    => LET u == proc[p].user
           cart == snap.users[u].cart
           order == orders[Len(orders)]
       IN /\ Len(orders) = Len(snap.orders) + 1
          /\ SubSeq(orders, 1, Len(snap.orders)) = snap.orders
          /\ order.user = u
          /\ ItemPairs(order.items) = LinePairs(cart)
          /\ order.status = "PENDING"
          /\ order.paymentStatus = "PENDING"
          /\ order.totalAmount
               = CartValue(cart, snap.products) + order.shippingCost
          /\ \A x \in Catalog :
               products[x].stock = snap.products[x].stock - CartQty(cart, x)
          /\ users[u].cart = <<>>

\* a cart of two lines has been checked out
C16_Witness ==
  \E p \in Procs :
    /\ Created(p)
    /\ proc[p].mode = "cart"
    /\ Len(orders[Len(orders)].items) = 2
    /\ \E x \in Catalog : products[x].stock = 0

\* slot p has served a cancelOrder
Cancelled(p) == Done(p) /\ proc[p].kind = "cancel"

\* the reason of slot p's request is missing or has fewer than 5 characters
\* once trimmed
ShortReason(p) ==
  proc[p].reason = <<>> \/ Len(Trim(proc[p].reason)) < 5

\* C18: cancelOrder by a user who does not own the order, and cancelOrder on
\* an order that does not exist, change nothing in the ledger, the histories
\* and the stock; with a valid reason the first fails as unauthorized and the
\* second as not found.
C18_CancelForeignOrMissingRejected ==
  \A p \in Procs :
    Cancelled(p)
    => LET o == proc[p].orderId
       IN /\ o \notin 1..Len(snap.orders)
             => /\ Unchanged
                /\ proc[p].result
                     = IF ShortReason(p) THEN "invalid_reason" ELSE "not_found"
          /\ (o \in 1..Len(snap.orders) /\ snap.orders[o].user # proc[p].user)
             => /\ Unchanged
                /\ proc[p].result
                     = IF ShortReason(p) THEN "invalid_reason"
                       ELSE "unauthorized"

\* a user has been refused the cancellation of another user's PENDING order
C18_Witness ==
  \E p \in Procs :
    /\ Cancelled(p)
    /\ proc[p].result = "unauthorized"
    /\ snap.orders[proc[p].orderId].status = "PENDING"
    /\ snap.orders[proc[p].orderId].user # proc[p].user

\* the cancellation of an order that does not exist has been refused
C18_WitnessNotFound ==
  \E p \in Procs :
    /\ Cancelled(p)
    /\ proc[p].result = "not_found"
    /\ proc[p].orderId > Len(orders)

\* C19: cancelOrder with a missing reason, or a reason shorter than 5
\* characters once trimmed, fails with the invalid-reason error and changes
\* nothing, whether or not the order exists, whoever owns it and whatever its
\* status.
C19_ShortReasonRejected ==
  \A p \in Procs :
    (Cancelled(p) /\ ShortReason(p))
    => proc[p].result = "invalid_reason" /\ Unchanged

\* the owner of a PENDING order has been refused its cancellation for a
\* reason of five characters that trims to two
C19_Witness ==
  \E p \in Procs :
    /\ Cancelled(p)
    /\ proc[p].result = "invalid_reason"
    /\ Len(proc[p].reason) >= 5
    /\ proc[p].orderId \in 1..Len(orders)
    /\ orders[proc[p].orderId].user = proc[p].user
    /\ orders[proc[p].orderId].status = "PENDING"

\* C20: once an order is created its owner, items (with their quantities and
\* priceAtPurchase), shippingCost and totalAmount never change and the order
\* stays in the ledger: the later steps write only its status, paymentStatus
\* and reasonForCancel.
C20_OrderFrame ==
  [][\A o \in 1..Len(orders) :
       /\ o <= Len(orders')
       /\ orders'[o].user = orders[o].user
       /\ orders'[o].items = orders[o].items
       /\ orders'[o].shippingCost = orders[o].shippingCost
       /\ orders'[o].totalAmount = orders[o].totalAmount]_vars

\* an order has been cancelled with a recorded reason and another has been
\* paid
C20_Witness ==
  \E o1, o2 \in 1..Len(orders) :
    /\ orders[o1].status = "CANCELLED"
    /\ orders[o1].reasonForCancel # <<>>
    /\ orders[o2].paymentStatus \in {"PAID", "FAILED"}

\* C21: getOrderById on an existing order answers with the order to its owner
\* and to a SUPERADMIN, and with 403 to any other caller, who never receives
\* the order.
C21_ViewAuthorization ==
  \A p \in Procs :
    (Done(p) /\ proc[p].kind = "view" /\ OrderExists(proc[p].orderId))
    => proc[p].result
         = IF \/ orders[proc[p].orderId].user = proc[p].user
              \/ proc[p].role = "SUPERADMIN"
           THEN "ok"
           ELSE "unauthorized"

\* C22: the priceAtPurchase of an order item is the catalog price of the
\* product at the step where placeOrder reads the product, whatever unit price
\* the cart line recorded, and the order is created with the items priced
\* that way.
C22_PriceAtPurchaseIsCatalogPrice ==
  [][\A p \in Procs :
       /\ (proc[p].pc = "pl_read" /\ proc'[p].pc = "pl_save")
          => proc'[p].items[Len(proc'[p].items)].priceAtPurchase
               = products[proc[p].lines[proc[p].i].productId].price
       /\ (proc[p].pc = "pl_create" /\ Len(orders') = Len(orders) + 1)
          => orders'[Len(orders')].items = proc[p].items]_vars

\* a cart checkout has created an order one item of which carries the new
\* price of its product and not the unit price of its cart line
C22_Witness ==
  \E p \in Procs :
    /\ Created(p)
    /\ proc[p].mode = "cart"
    /\ \E i \in 1..Len(proc[p].lines) :
         /\ orders[Len(orders)].items[i].priceAtPurchase \in NewPrices
         /\ orders[Len(orders)].items[i].priceAtPurchase
              # proc[p].lines[i].unitPrice

\* slot p has served a payment webhook of the given kind
Webhook(p, kind) == Done(p) /\ proc[p].kind = kind

\* C23: onPaymentFailed on an existing order sets its paymentStatus to FAILED,
\* adds each item's quantity to its product's stock and leaves the order's
\* status and items as they were; a payment webhook, failed or confirmed, for
\* an order id that does not exist changes nothing.
C23_PaymentFailedFrame ==
  \A p \in Procs :
    LET o == proc[p].orderId
    IN /\ (Webhook(p, "failed") /\ o \in 1..Len(snap.orders))
          => /\ orders[o].paymentStatus = "FAILED"
             /\ orders[o].status = snap.orders[o].status
             /\ orders[o].items = snap.orders[o].items
             /\ \A x \in Catalog :
                  products[x].stock
                    = snap.products[x].stock + OrderedQty(orders[o].items, x)
       /\ ( /\ Webhook(p, "failed") \/ Webhook(p, "paid")
            /\ o \notin 1..Len(snap.orders) )
          => Unchanged

\* the failed-payment webhook has been served for a PENDING order holding a
\* quantity of two
C23_Witness ==
  \E p \in Procs :
    /\ Webhook(p, "failed")
    /\ proc[p].orderId \in 1..Len(snap.orders)
    /\ snap.orders[proc[p].orderId].status = "PENDING"
    /\ \E x \in Catalog : OrderedQty(orders[proc[p].orderId].items, x) = 2

\* a payment webhook has been served for an order id that does not exist
C23_WitnessMissing ==
  \E p \in Procs :
    /\ Webhook(p, "failed") \/ Webhook(p, "paid")
    /\ proc[p].orderId > Len(orders)

\* C24: placeOrder checks every line's product for existence and for a status
\* that keeps it on sale: no order is created with a product that is missing
\* from the catalog or not ACTIVE when the order is placed.
C24_OnlyActiveProductsOrdered ==
  \A p \in Procs :
    Created(p)
    => \A i \in 1..Len(orders[Len(orders)].items) :
         LET x == orders[Len(orders)].items[i].product
         IN ProductExists(x) /\ snap.products[x].status = "ACTIVE"

\* C25: a login attempt made before lockUntil is rejected with 423, even with
\* the correct password, and changes neither loginAttempts nor lockUntil; the
\* third consecutive failed attempt sets lockUntil 30 minutes ahead; the
\* first attempt once lockUntil has passed starts from loginAttempts 0 and no
\* lock; a successful login leaves loginAttempts at 0.
C25_LoginLockout ==
  [][auth'.n = auth.n + 1
     => LET locked == auth.lockUntil # -1 /\ auth.now < auth.lockUntil
            passed == auth.lockUntil # -1 /\ auth.now >= auth.lockUntil
        IN /\ locked
              => /\ auth'.code = 423
                 /\ auth'.loginAttempts = auth.loginAttempts
                 /\ auth'.lockUntil = auth.lockUntil
           /\ (~locked /\ ~passed /\ ~auth'.correct)
              => /\ auth'.code = 401
                 /\ auth'.loginAttempts = auth.loginAttempts + 1
                 /\ auth'.loginAttempts = 3
                    => auth'.lockUntil = auth.now + 30
                 /\ auth'.loginAttempts < 3 => auth'.lockUntil = -1
           /\ (passed /\ ~auth'.correct)
              => /\ auth'.code = 401
                 /\ auth'.loginAttempts = 1
                 /\ auth'.lockUntil = -1
           /\ (~locked /\ auth'.correct)
              => /\ auth'.code = 200
                 /\ auth'.loginAttempts = 0
                 /\ auth'.lockUntil = -1]_vars

\* a login with the correct password has been rejected with 423 on an
\* account locked by three failed attempts
C25_Witness ==
  /\ auth.code = 423
  /\ auth.correct
  /\ auth.loginAttempts = 3
  /\ auth.lockUntil = 30

\* an attempt after the end of the lock has been served as a first attempt
C25_WitnessExpired ==
  /\ auth.n = 5
  /\ auth.code = 401
  /\ auth.loginAttempts = 1
  /\ auth.now >= 30

\* C26: after any sequence of addRating calls the product holds at most one
\* rating entry per user, in the Rating collection and in its ratings array,
\* each with the stars the user gave last, and totalRatings is the number of
\* distinct users who rated.
C26_OneRatingPerUser ==
  /\ \A u \in Users :
       /\ Cardinality(RatingsOf(rate.embedded, u)) <= 1
       /\ \A i \in RatingsOf(rate.embedded, u) :
            rate.embedded[i].stars = rate.last[u]
       /\ rate.coll[u] # 0 => rate.coll[u] = rate.last[u]
  /\ rate.totalRatings = Cardinality({u \in Users : rate.last[u] # 0})

\* C27: once every addToFavorites and removeFromFavorites call of a user has
\* completed, the products of the user's favorites array are the products of
\* the user's Favorite documents, and no product appears twice in either.
C27_FavoritesMirror ==
  (\A p \in Procs : fav.slot[p].pc \in {"idle", "done"})
  => /\ {x \in Catalog : fav.embedded[x] > 0}
          = {x \in Catalog : fav.coll[x] > 0}
     /\ \A x \in Catalog : fav.embedded[x] <= 1 /\ fav.coll[x] <= 1

\* C28: after any sequence of addReview and deleteReview calls the product's
\* totalReviews is the length of its reviews array and the number of its
\* documents in the Review collection.
C28_ReviewCountsAgree ==
  /\ rev.totalReviews = Len(rev.embedded)
  /\ rev.totalReviews = Cardinality(rev.coll)

RECURSIVE HeldQty(_, _)
\* total quantity of product x over the PROCESSING orders of a ledger
HeldQty(ledger, x) ==
  IF ledger = <<>> THEN 0
  ELSE (IF Head(ledger).status = "PROCESSING"
        THEN OrderedQty(Head(ledger).items, x) ELSE 0)
       + HeldQty(Tail(ledger), x)

\* C29: no order is PROCESSING after its stock has been given back: the
\* quantities of the PROCESSING orders are still deducted from the stock,
\* under any ordering of cancelOrder and the payment webhooks.
C29_ProcessingOrdersHoldStock ==
  \A x \in Catalog : products[x].stock <= initStock[x] - HeldQty(orders, x)

\* slot p has served a cart checkout of user u
CartCheckout(p, u) ==
  Placed(p) /\ proc[p].mode = "cart" /\ proc[p].user = u

\* C30: when one user issues two cart checkouts concurrently against one
\* non-empty cart and one of them succeeds, at most one order is created from
\* the cart's lines and no product's stock drops by more than its cart
\* quantity.
C30_CartOrderedOnce ==
  \A u \in Users : \A p, q \in Procs :
    (/\ p # q /\ nCalls = 2
     /\ CartCheckout(p, u) /\ CartCheckout(q, u)
     /\ proc[p].result = "ok")
    => /\ Len(orders) <= 1
       /\ \A x \in Catalog :
            products[x].stock >= initStock[x] - CartQty(proc[p].lines, x)

====
